---- MODULE Spec2Model ----
(***************************************************************************)
(* Span-boundary construction, prediction decoding, coverage evaluation    *)
(* and early-stopping bookkeeping of the ASTE chunker.                     *)
(*                                                                         *)
(* Arrays are sequences: element i+1 of a sequence is index i of the       *)
(* array.  A span is a pair <<start, end>> of 0-based token indices.       *)
(* Class scores are kept in tenths (5 stands for 0.5).                     *)
(***************************************************************************)
EXTENDS Integers, Sequences, FiniteSets, TLC

VARIABLES
    batch,            \* construct_spans_ranges: the samples of the batch
    result_spans,     \* construct_spans_ranges: its outcome
    sample,           \* _get_predicted_spans: the decoded sample
    model_out_b,      \* class scores of a second run on the same sample
    predicted_spans,  \* _get_predicted_spans(sample) with sample.model_out
    predicted_spans_b,\* _get_predicted_spans(sample) with model_out_b
    metrics_in,       \* _model_out_for_metrics on sample.model_out
    metrics_in_b,     \* _model_out_for_metrics on model_out_b
    dpc,              \* which of the two handlers has run on the sample
    num_predicted,          \* check_coverage_detected_spans: its three counters
    num_correct_predicted,
    true_num,
    coverage,         \* check_coverage_detected_spans: its outcome
    sum_intersection, \* history: sum of |predicted \cap reference| over the samples
    sum_reference,    \* history: sum of the number of distinct reference spans
    samples_seen,     \* history: number of samples handled
    opt_direction,    \* Memory.opt_direction
    best_value,       \* Memory.best_value
    best_epoch,       \* Memory.best_epoch
    patience,         \* Memory.patience: {} for None, {p} for the integer p
    calls,            \* history: the Memory.update calls and what they returned
    config_epochs,    \* config['model']['epochs']
    dev_data,         \* Trainer.train: whether dev_data is given
    dir_exists,       \* Trainer.train: whether the save directory exists already
    epoch,            \* Trainer.train: passes of the loop started so far
    saved,            \* history: the epochs in which save_model ran
    early_stopped,    \* Trainer.train: the loop was left through the break
    tpc               \* Trainer.train: position in the method

rangesVars == <<batch, result_spans>>
decodeVars == <<sample, model_out_b, predicted_spans, predicted_spans_b,
                metrics_in, metrics_in_b, dpc>>
coverageVars == <<num_predicted, num_correct_predicted, true_num, coverage,
                  sum_intersection, sum_reference,
                  samples_seen>>
memoryVars == <<opt_direction, best_value, best_epoch, patience, calls>>
trainVars == <<config_epochs, dev_data, dir_exists, epoch, saved, early_stopped, tpc>>
vars == <<rangesVars, decodeVars, coverageVars, memoryVars, trainVars>>

---------------------------------------------------------------------------
(* Bounds *)
MaxSentenceLength == 6   \* encoded length of a sample given to construct_spans_ranges
MaxBatch == 2            \* samples in a batch
MaxLen == 4              \* encoded length of a decoded sample
MaxPad == 1              \* padding positions after the encoded sentence
MaxSamples == 2          \* samples in the data given to check_coverage_detected_spans
MaxRef == 2              \* reference spans listed for a sample
CovLen == 5              \* encoded length of a sample of the coverage data
MaxValue == 2            \* objective values are 0..MaxValue
MaxCalls == 3            \* Memory.update calls in a run of the Memory alone
MaxEpoch == 3            \* epoch numbers passed to Memory.update
MaxEpochs == 4           \* config['model']['epochs']
MaxPatience == 2         \* config['model']['early-stopping']

(* Program constants *)
Threshold == 5           \* 0.5, in tenths
NOT_SPLIT == 0           \* int(ChunkCode.NOT_SPLIT)
ScorePairs == {<<6, 4>>, <<5, 5>>}   \* (not-split, split) scores, in tenths

---------------------------------------------------------------------------
(* Array primitives *)

Min(a, b) == IF a < b THEN a ELSE b

\* np.where(x)[0], Tensor.nonzero(): the 0-based indices of the nonzero
\* elements, in increasing order
RECURSIVE NonzeroFrom(_, _)
NonzeroFrom(arr, i) ==
    IF i > Len(arr) THEN <<>>
    ELSE (IF arr[i] # 0 THEN <<i - 1>> ELSE <<>>) \o NonzeroFrom(arr, i + 1)

Nonzero(arr) == NonzeroFrom(arr, 1)

\* sliding_window_view(b, 2), Tensor.unfold(0, 2, 1): adjacent pairs
Unfold(b) == [j \in 1..(Len(b) - 1) |-> <<b[j], b[j + 1]>>]

\* rows[:, 1] -= 1
DecrementEnd(rows) == [j \in 1..Len(rows) |-> <<rows[j][1], rows[j][2] - 1>>]

\* arr[:n]
Truncate(arr, n) == SubSeq(arr, 1, Min(n, Len(arr)))

---------------------------------------------------------------------------
(* TransformerWithAggregation.construct_spans_ranges *)

\* the boundaries of one sample: nonzero().squeeze() padded with 0 on the
\* left and with N-1 and N on the right.  A mask with a single nonzero
\* element squeezes to a 0-d tensor, which pad rejects.
PadSpans(idx, N) == <<0>> \o idx \o <<N - 1>> \o <<N>>

SampleSpansRanges(words_mask, N) ==
    LET idx == Nonzero(words_mask)
    IN  IF Len(idx) = 1
        THEN [ok |-> FALSE, rows |-> <<>>]
        ELSE [ok |-> TRUE, rows |-> DecrementEnd(Unfold(PadSpans(idx, N)))]

SpansRanges(b) ==
    LET per == [k \in 1..Len(b) |->
                   SampleSpansRanges(b[k].words_mask, b[k].encoded_sentence_length)]
    IN  IF \E k \in 1..Len(b) : ~per[k].ok
        THEN [status |-> "RuntimeError", spans |-> <<>>]
        ELSE [status |-> "ok", spans |-> [k \in 1..Len(b) |-> per[k].rows]]

\* get_sub_words_mask(force_true_mask=True): 0/1 flags, the first one forced
ForcedMasks(N) == {m \in [1..N -> {0, 1}] : m[1] = 1}

RangeSamples ==
    UNION {[words_mask : ForcedMasks(N), encoded_sentence_length : {N}] :
              N \in 1..MaxSentenceLength}

ConstructSpansRanges ==
    /\ result_spans.status = "none"
    /\ result_spans' = SpansRanges(batch)
    /\ UNCHANGED <<batch, decodeVars, coverageVars, memoryVars, trainVars>>

---------------------------------------------------------------------------
(* Trainer._get_predicted_spans and Trainer._model_out_for_metrics *)

\* np.where(predictions[:, 1] >= 0.5, 1, 0)
Binarize(scores) ==
    [i \in 1..Len(scores) |-> IF scores[i][2] >= Threshold THEN 1 ELSE 0]

\* the mask not applied
IgnoreSubMask(sub_mask, predictions) == predictions

\* np.where(sub_mask, predictions, int(ChunkCode.NOT_SPLIT))
ApplySubMask(sub_mask, predictions) ==
    [i \in 1..Len(predictions) |->
        IF sub_mask[i] # 0 THEN predictions[i] ELSE NOT_SPLIT]

\* the sentence length as right sentinel
PadToLength(idx, offset, length) == <<offset>> \o idx \o <<length>>

\* np.pad(idx, 1, constant_values=(offset, len(predictions) - offset))
PadBoundaries(idx, offset, length) == <<offset>> \o idx \o <<length - offset>>

\* np.delete left out
KeepAllRows(rows) == rows

\* np.delete(spans, np.where(spans[:, 0] > spans[:, 1]), axis=0)
DropDegenerate(rows) == SelectSeq(rows, LAMBDA r : ~(r[1] > r[2]))

GetPredictedSpans(offset, N, scores, sub_words_mask) ==
    LET binarized   == Binarize(scores)
        predictions == Truncate(binarized, N)
        sub_mask    == Truncate(sub_words_mask, N)
        masked      == ApplySubMask(sub_mask, predictions)
        boundaries  == PadBoundaries(Nonzero(masked), offset, Len(masked))
    IN  DropDegenerate(DecrementEnd(Unfold(boundaries)))

\* torch.where(sub_mask, model_out, fill_value), fill_value[NOT_SPLIT] = 1.
FillValue == [c \in 1..2 |-> IF c = NOT_SPLIT + 1 THEN 10 ELSE 0]

ModelOutForMetrics(scores, sub_words_mask) ==
    [i \in 1..Len(scores) |-> IF sub_words_mask[i] # 0 THEN scores[i] ELSE FillValue]

\* two score arrays agree wherever the sub-word mask is set
AgreeOnMask(a, b, sub_words_mask) ==
    \A i \in 1..Len(sub_words_mask) : sub_words_mask[i] # 0 => a[i] = b[i]

DecodeSamples ==
    UNION {[offset : 0..(N - 1), encoded_sentence_length : {N},
            sub_words_mask : [1..L -> {0, 1}], model_out : [1..L -> ScorePairs]] :
              <<N, L>> \in {<<n, l>> \in (1..MaxLen) \X (1..(MaxLen + MaxPad)) :
                               l >= n /\ l <= n + MaxPad}}

PredictSpans ==
    /\ dpc = "ready"
    /\ predicted_spans' = GetPredictedSpans(sample.offset, sample.encoded_sentence_length,
                                            sample.model_out, sample.sub_words_mask)
    /\ predicted_spans_b' = GetPredictedSpans(sample.offset, sample.encoded_sentence_length,
                                              model_out_b, sample.sub_words_mask)
    /\ dpc' = "spans"
    /\ UNCHANGED <<sample, model_out_b, metrics_in, metrics_in_b, rangesVars,
                   coverageVars, memoryVars, trainVars>>

MetricsInput ==
    /\ dpc = "ready"
    /\ metrics_in' = ModelOutForMetrics(sample.model_out, sample.sub_words_mask)
    /\ metrics_in_b' = ModelOutForMetrics(model_out_b, sample.sub_words_mask)
    /\ dpc' = "metrics"
    /\ UNCHANGED <<sample, model_out_b, predicted_spans, predicted_spans_b, rangesVars,
                   coverageVars, memoryVars, trainVars>>

---------------------------------------------------------------------------
(* Trainer.check_coverage_detected_spans and Trainer._count_intersection *)

ToSet(seq) == {seq[i] : i \in 1..Len(seq)}

\* len(set(predicted rows).intersection(set(true_spans)))
CountIntersection(true, predicted) == Cardinality(ToSet(predicted) \cap ToSet(true))

\* int / int with 0.0 for an empty denominator
DivideOrZero(num, den) ==
    IF den = 0
    THEN [status |-> "ok", num |-> 0, den |-> 1]
    ELSE [status |-> "ok", num |-> num, den |-> den]

\* num_correct_predicted / true_num: the quotient is kept as the pair of
\* its operands; a zero denominator raises
Divide(num, den) ==
    IF den = 0
    THEN [status |-> "ZeroDivisionError", num |-> 0, den |-> 0]
    ELSE [status |-> "ok", num |-> num, den |-> den]

\* reference lists: get_all_unordered_spans() is a list, it may repeat a span
RefPool == {<<0, 2>>, <<3, 4>>, <<6, 7>>}
RefLists == UNION {[1..n -> RefPool] : n \in 0..MaxRef}

\* samples of the data: every token starts a word
CoverageSamples ==
    UNION {[offset : {0}, encoded_sentence_length : {N},
            sub_words_mask : {[i \in 1..N |-> 1]}, model_out : [1..N -> ScorePairs]] :
              N \in 1..CovLen}

\* what _get_predicted_spans returns on the samples of the data
CoveragePredictions ==
    {GetPredictedSpans(s.offset, s.encoded_sentence_length, s.model_out,
                       s.sub_words_mask) : s \in CoverageSamples}

\* one pass of the loop body
CoverageSample ==
    /\ coverage.status = "running"
    /\ samples_seen < MaxSamples
    /\ \E predicted \in CoveragePredictions, true_spans \in RefLists :
          /\ num_correct_predicted' =
                 num_correct_predicted + CountIntersection(true_spans, predicted)
          /\ num_predicted' = num_predicted + Len(predicted)
          /\ true_num' = true_num + Len(true_spans)
          /\ sum_intersection' =
                 sum_intersection
                   + Cardinality({x \in ToSet(true_spans) :
                                     \E j \in 1..Len(predicted) : predicted[j] = x})
          /\ sum_reference' = sum_reference + Cardinality(ToSet(true_spans))
    /\ samples_seen' = samples_seen + 1
    /\ UNCHANGED <<coverage, rangesVars, decodeVars, memoryVars, trainVars>>

\* the data is exhausted: the ratio is computed and returned
CoverageReturn ==
    /\ coverage.status = "running"
    /\ coverage' = Divide(num_correct_predicted, true_num)
    /\ UNCHANGED <<num_predicted, num_correct_predicted, true_num,
                   sum_intersection, sum_reference, samples_seen,
                   rangesVars, decodeVars, memoryVars, trainVars>>

---------------------------------------------------------------------------
(* Memory *)

Max(a, b) == IF a > b THEN a ELSE b

Values == 0..MaxValue
Infinity == MaxValue + 1     \* float('inf'): above every objective value

\* Memory.__init__: best_value
InitialBest(dir) == IF dir = "min" THEN Infinity ELSE -Infinity

\* Memory.func
Func(dir, a, b) == IF dir = "min" THEN Min(a, b) ELSE Max(a, b)

\* an update that takes a tie for an improvement
UpdateOnTie(dir, bv, be, ep, value) ==
    IF Func(dir, bv, value) = value
    THEN [improvement |-> TRUE, best_epoch |-> ep, best_value |-> value]
    ELSE [improvement |-> FALSE, best_epoch |-> be, best_value |-> bv]

\* Memory.update: the value returned and the fields after the call
MemoryUpdate(dir, bv, be, ep, value) ==
    LET best_loss == Func(dir, bv, value)
    IN  IF best_loss # bv
        THEN [improvement |-> TRUE, best_epoch |-> ep, best_value |-> value]
        ELSE [improvement |-> FALSE, best_epoch |-> be, best_value |-> bv]

\* early stopping one epoch too soon
EarlyStoppingAtPatience(pat, ep, be) ==
    IF pat = {} THEN FALSE ELSE \E p \in pat : ep - be >= p

\* Memory.early_stopping
EarlyStopping(pat, ep, be) ==
    IF pat = {} THEN FALSE ELSE \E p \in pat : ep - be > p

Call(ep, value, u) ==
    [epoch |-> ep, value |-> value, improvement |-> u.improvement,
     best_epoch |-> u.best_epoch, best_value |-> u.best_value]

LastEpoch == IF calls = <<>> THEN 0 ELSE calls[Len(calls)].epoch

\* Memory.update(epoch, values_dict), called with non-decreasing epochs
Update ==
    /\ tpc = "idle" /\ opt_direction \in {"min", "max"}
    /\ Len(calls) < MaxCalls
    /\ \E ep \in LastEpoch..MaxEpoch, value \in Values :
          LET u == MemoryUpdate(opt_direction, best_value, best_epoch, ep, value)
          IN  /\ best_value' = u.best_value
              /\ best_epoch' = u.best_epoch
              /\ calls' = Append(calls, Call(ep, value, u))
    /\ UNCHANGED <<opt_direction, patience, rangesVars, decodeVars, coverageVars, trainVars>>

---------------------------------------------------------------------------
(* Trainer.train and Trainer._eval; the Trainer's Memory maximises *)

\* os.makedirs(..., exist_ok=False)
TrainStart ==
    /\ tpc = "start"
    /\ tpc' = IF dir_exists THEN "FileExistsError" ELSE "loop"
    /\ UNCHANGED <<config_epochs, dev_data, dir_exists, epoch, saved, early_stopped,
                   memoryVars, rangesVars, decodeVars, coverageVars>>

\* a pass of the loop without dev data: _eval returns False
TrainEpochNoDev ==
    /\ tpc = "loop" /\ epoch < config_epochs
    /\ ~dev_data
    /\ epoch' = epoch + 1
    /\ UNCHANGED <<config_epochs, dev_data, dir_exists, saved, early_stopped, tpc,
                   memoryVars, rangesVars, decodeVars, coverageVars>>

\* a pass of the loop with dev data and no patience: the objective name is
\* None and values_dict[None] raises
TrainEpochNoObjective ==
    /\ tpc = "loop" /\ epoch < config_epochs
    /\ dev_data /\ patience = {}
    /\ epoch' = epoch + 1
    /\ tpc' = "KeyError"
    /\ UNCHANGED <<config_epochs, dev_data, dir_exists, saved, early_stopped,
                   memoryVars, rangesVars, decodeVars, coverageVars>>

\* a pass of the loop with dev data: test, Memory.update, save on
\* improvement, break on early stopping
TrainEpochEval ==
    /\ tpc = "loop" /\ epoch < config_epochs
    /\ dev_data /\ patience # {}
    /\ \E value \in Values :
          LET u == MemoryUpdate(opt_direction, best_value, best_epoch, epoch, value)
              stop == EarlyStopping(patience, epoch, u.best_epoch)
          IN  /\ best_value' = u.best_value
              /\ best_epoch' = u.best_epoch
              /\ calls' = Append(calls, Call(epoch, value, u))
              /\ saved' = IF u.improvement THEN Append(saved, epoch) ELSE saved
              /\ early_stopped' = stop
              /\ tpc' = IF stop THEN "done" ELSE "loop"
    /\ epoch' = epoch + 1
    /\ UNCHANGED <<config_epochs, dev_data, dir_exists, opt_direction, patience,
                   rangesVars, decodeVars, coverageVars>>

\* range(epochs) is exhausted
TrainEnd ==
    /\ tpc = "loop" /\ epoch = config_epochs
    /\ tpc' = "done"
    /\ UNCHANGED <<config_epochs, dev_data, dir_exists, epoch, saved, early_stopped,
                   memoryVars, rangesVars, decodeVars, coverageVars>>

---------------------------------------------------------------------------
(* Specifications *)

NoSample == [offset |-> 0, encoded_sentence_length |-> 0,
             sub_words_mask |-> <<>>, model_out |-> <<>>]

RangesIdle == batch = <<>> /\ result_spans = [status |-> "idle", spans |-> <<>>]

DecodeIdle ==
    /\ sample = NoSample
    /\ model_out_b = <<>>
    /\ predicted_spans = <<>> /\ predicted_spans_b = <<>>
    /\ metrics_in = <<>> /\ metrics_in_b = <<>>
    /\ dpc = "idle"

CoverageIdle ==
    /\ num_predicted = 0 /\ num_correct_predicted = 0 /\ true_num = 0
    /\ coverage = [status |-> "idle", num |-> 0, den |-> 0]
    /\ sum_intersection = 0 /\ sum_reference = 0 /\ samples_seen = 0

MemoryIdle ==
    /\ opt_direction = "none" /\ best_value = 0 /\ best_epoch = 0
    /\ patience = {} /\ calls = <<>>

TrainIdle ==
    /\ config_epochs = 0 /\ dev_data = FALSE /\ dir_exists = FALSE
    /\ epoch = 0 /\ saved = <<>> /\ early_stopped = FALSE /\ tpc = "idle"

InitRanges ==
    /\ \E n \in 1..MaxBatch : batch \in [1..n -> RangeSamples]
    /\ result_spans = [status |-> "none", spans |-> <<>>]
    /\ DecodeIdle
    /\ CoverageIdle
    /\ MemoryIdle /\ TrainIdle

NextRanges == ConstructSpansRanges

SpecRanges == InitRanges /\ [][NextRanges]_vars

InitDecode ==
    /\ sample \in DecodeSamples
    /\ model_out_b \in {m \in [1..Len(sample.model_out) -> ScorePairs] :
                           AgreeOnMask(sample.model_out, m, sample.sub_words_mask)}
    /\ predicted_spans = <<>> /\ predicted_spans_b = <<>>
    /\ metrics_in = <<>> /\ metrics_in_b = <<>>
    /\ dpc = "ready"
    /\ RangesIdle
    /\ CoverageIdle
    /\ MemoryIdle /\ TrainIdle

NextDecode == PredictSpans \/ MetricsInput

SpecDecode == InitDecode /\ [][NextDecode]_vars

InitCoverage ==
    /\ num_predicted = 0 /\ num_correct_predicted = 0 /\ true_num = 0
    /\ coverage = [status |-> "running", num |-> 0, den |-> 0]
    /\ sum_intersection = 0 /\ sum_reference = 0 /\ samples_seen = 0
    /\ RangesIdle
    /\ DecodeIdle
    /\ MemoryIdle /\ TrainIdle

NextCoverage == CoverageSample \/ CoverageReturn

SpecCoverage == InitCoverage /\ [][NextCoverage]_vars

InitMemory ==
    /\ opt_direction \in {"min", "max"}
    /\ best_value = InitialBest(opt_direction)
    /\ best_epoch = 0
    /\ patience \in {{p} : p \in 0..MaxPatience}
    /\ calls = <<>>
    /\ TrainIdle
    /\ RangesIdle /\ DecodeIdle /\ CoverageIdle

NextMemory == Update

SpecMemory == InitMemory /\ [][NextMemory]_vars

InitTrain ==
    /\ opt_direction = "max"
    /\ best_value = InitialBest(opt_direction)
    /\ best_epoch = 0
    /\ patience \in {{}} \cup {{p} : p \in 0..MaxPatience}
    /\ calls = <<>>
    /\ config_epochs \in 1..MaxEpochs
    /\ dev_data \in BOOLEAN
    /\ dir_exists \in BOOLEAN
    /\ epoch = 0 /\ saved = <<>> /\ early_stopped = FALSE
    /\ tpc = "start"
    /\ RangesIdle /\ DecodeIdle /\ CoverageIdle

NextTrain ==
    \/ TrainStart
    \/ TrainEpochNoDev
    \/ TrainEpochNoObjective
    \/ TrainEpochEval
    \/ TrainEnd

SpecTrain == InitTrain /\ [][NextTrain]_vars

\* the loop is run by one thread that is never suspended for good
FairSpecTrain == SpecTrain /\ WF_vars(NextTrain)

---------------------------------------------------------------------------
(* Properties of construct_spans_ranges *)

RECURSIVE SortedSeq(_)
SortedSeq(S) ==
    IF S = {} THEN <<>>
    ELSE LET m == CHOOSE x \in S : \A y \in S : x <= y
         IN  <<m>> \o SortedSeq(S \ {m})

\* the sorted, duplicate-free boundary set of a sample and its spans
BoundarySet(s) ==
    {i - 1 : i \in {k \in 1..Len(s.words_mask) : s.words_mask[k] # 0}}
        \cup {0, s.encoded_sentence_length - 1, s.encoded_sentence_length}

ExpectedRanges(s) ==
    LET b == SortedSeq(BoundarySet(s))
    IN  [j \in 1..(Len(b) - 1) |-> <<b[j], b[j + 1] - 1>>]

\* C1: construct_spans_ranges returns, for every sample, exactly the spans
\* (b_j, b_{j+1} - 1) of consecutive elements of the sorted duplicate-free
\* set of the unit starts together with 0, N-1 and N, and no other row.
C1_ExactRanges ==
    result_spans.status = "ok" =>
        \A k \in 1..Len(batch) : result_spans.spans[k] = ExpectedRanges(batch[k])

WellFormedRows(rows, N) ==
    /\ \A j \in 1..Len(rows) : 0 <= rows[j][1] /\ rows[j][1] <= rows[j][2]
                                /\ rows[j][2] <= N - 1
    /\ \A j \in 1..(Len(rows) - 1) : rows[j][1] < rows[j + 1][1]
    /\ \A i, j \in 1..Len(rows) :
          i # j => (rows[i][1]..rows[i][2]) \cap (rows[j][1]..rows[j][2]) = {}

\* C2: every span construct_spans_ranges emits satisfies
\* 0 <= start <= end <= N-1, and the spans of a sample are ordered by
\* strictly increasing start and share no token index.
C2_RangesWellFormed ==
    result_spans.status = "ok" =>
        \A k \in 1..Len(batch) :
            WellFormedRows(result_spans.spans[k], batch[k].encoded_sentence_length)

---------------------------------------------------------------------------
(* Properties of _get_predicted_spans *)

SpansDone == dpc = "spans"
MetricsDone == dpc = "metrics"

\* C3: the predicted spans have start <= end, and every span starts after
\* the end of the span before it (so starts strictly increase and no two
\* spans overlap).
C3_PredictedOrdered ==
    SpansDone =>
        /\ \A j \in 1..Len(predicted_spans) : predicted_spans[j][1] <= predicted_spans[j][2]
        /\ \A j \in 1..(Len(predicted_spans) - 1) :
              /\ predicted_spans[j + 1][1] > predicted_spans[j][2]
              /\ predicted_spans[j + 1][1] > predicted_spans[j][1]

\* a degenerate span was dropped at the offset seam and two or more remain
C3_Witness ==
    /\ SpansDone
    /\ sample.offset > 0
    /\ Len(predicted_spans) >= 2
    /\ \E i \in 1..sample.offset :
          sample.sub_words_mask[i] # 0 /\ sample.model_out[i][2] >= Threshold

\* C4: two runs that agree on the sample and on the class scores wherever
\* the sub-word mask is set return the same spans (and feed the same scores
\* to the metrics); no span starts at a continuation sub-token other than
\* at the left sentinel.
C4_MaskingInvariant ==
    AgreeOnMask(sample.model_out, model_out_b, sample.sub_words_mask) =>
        /\ SpansDone =>
              /\ predicted_spans = predicted_spans_b
              /\ \A j \in 1..Len(predicted_spans) :
                    \/ predicted_spans[j][1] = sample.offset
                    \/ sample.sub_words_mask[predicted_spans[j][1] + 1] # 0
        /\ MetricsDone => metrics_in = metrics_in_b

\* the two runs differ in a split score of a continuation sub-token inside
\* the sentence, and the sentence decodes to several spans
C4_Witness ==
    /\ SpansDone
    /\ Len(predicted_spans) >= 2
    /\ \E i \in 1..sample.encoded_sentence_length :
          /\ sample.sub_words_mask[i] = 0
          /\ sample.model_out[i][2] >= Threshold
          /\ model_out_b[i][2] < Threshold

\* no position of the sentence is decoded as a split: its split score is
\* below the threshold or its sub-word mask is clear
NoSplitDecoded ==
    \A i \in 1..sample.encoded_sentence_length :
        sample.model_out[i][2] < Threshold \/ sample.sub_words_mask[i] = 0

\* C5 as stated: with no split decoded the result is the single span from
\* the offset to the last index N-1.
C5_WholeSentenceSpan ==
    (SpansDone /\ NoSplitDecoded) =>
        predicted_spans = <<(<<sample.offset, sample.encoded_sentence_length - 1>>)>>

\* C5 amended: with no split decoded the result is the single span
\* (o, N-o-1) when 2o < N and no span otherwise; for offset 0 this is the
\* whole sentence (0, N-1).
C5_SentinelSpan ==
    (SpansDone /\ NoSplitDecoded) =>
        predicted_spans =
            IF 2 * sample.offset < sample.encoded_sentence_length
            THEN <<(<<sample.offset,
                      sample.encoded_sentence_length - sample.offset - 1>>)>>
            ELSE <<>>

\* a sentence of length 4 with offset 1 whose only split score above the
\* threshold is masked out decodes to the single span (1, 2)
C5_Witness ==
    /\ SpansDone /\ NoSplitDecoded
    /\ sample.encoded_sentence_length = 4 /\ sample.offset = 1
    /\ \E i \in 1..4 : sample.model_out[i][2] >= Threshold
    /\ predicted_spans = <<(<<1, 2>>)>>

\* C8: every predicted span lies inside the content: start >= offset and
\* end <= N-1.
C8_InsideContent ==
    SpansDone =>
        \A j \in 1..Len(predicted_spans) :
            /\ predicted_spans[j][1] >= sample.offset
            /\ predicted_spans[j][2] <= sample.encoded_sentence_length - 1

---------------------------------------------------------------------------
(* Properties of check_coverage_detected_spans *)

\* C6: the returned ratio is (sum of |predicted \cap reference|) over (sum
\* of the number of distinct reference spans); it is 1 whenever every
\* distinct reference span of every sample is predicted.
C6_SetSemanticsRatio ==
    coverage.status = "ok" =>
        /\ coverage.num * sum_reference = sum_intersection * coverage.den
        /\ (sum_intersection = sum_reference) => coverage.num = coverage.den

\* C7: when no reference span was listed over the whole data, the call ends
\* in the division error and returns no ratio.
C7_ZeroReferenceFails ==
    (coverage.status \notin {"running", "idle"} /\ sum_reference = 0) =>
        coverage.status = "ZeroDivisionError"

\* a sample with predicted spans and an empty reference list was handled
\* and the call has failed
C7_Witness ==
    /\ coverage.status = "ZeroDivisionError"
    /\ samples_seen >= 1 /\ true_num = 0
    /\ num_predicted > 0

---------------------------------------------------------------------------
(* Properties of Memory and of the training loop *)

Better(dir, a, b) == IF dir = "min" THEN a < b ELSE a > b

BestBefore(i) == IF i = 1 THEN InitialBest(opt_direction) ELSE calls[i - 1].best_value
EpochBefore(i) == IF i = 1 THEN 0 ELSE calls[i - 1].best_epoch

\* C9: best_value is the extremum of the initial value and of the values
\* seen, best_epoch is the epoch of the first call that reached it, update
\* returns true exactly for the calls strictly better than every earlier
\* value, and a call that does not improve changes neither field.
C9_MemoryTracksBest ==
    (tpc = "idle" /\ opt_direction \in {"min", "max"}) =>
        LET n == Len(calls)
            seen == {InitialBest(opt_direction)} \cup {calls[i].value : i \in 1..n}
        IN  /\ best_value \in seen
            /\ \A v \in seen : ~Better(opt_direction, v, best_value)
            /\ n >= 1 =>
                  \E i \in 1..n :
                      /\ calls[i].value = best_value
                      /\ \A j \in 1..(i - 1) : calls[j].value # best_value
                      /\ best_epoch = calls[i].epoch
            /\ \A i \in 1..n :
                  /\ calls[i].improvement <=>
                        \A j \in 1..(i - 1) :
                            Better(opt_direction, calls[i].value, calls[j].value)
                  /\ ~calls[i].improvement =>
                        /\ calls[i].best_value = BestBefore(i)
                        /\ calls[i].best_epoch = EpochBefore(i)

\* three calls at three epochs: an improvement, a tie with the best value
\* and a worse value; the best epoch is still the first one
C9_Witness ==
    /\ tpc = "idle" /\ opt_direction = "max"
    /\ Len(calls) = 3
    /\ calls[1].epoch < calls[2].epoch /\ calls[2].epoch < calls[3].epoch
    /\ calls[2].value = calls[1].value
    /\ calls[3].value < calls[1].value
    /\ best_epoch = calls[1].epoch /\ best_epoch > 0

ImprovedEpochs ==
    LET imp == SelectSeq(calls, LAMBDA c : c.improvement)
    IN  [i \in 1..Len(imp) |-> imp[i].epoch]

TrainInv ==
    tpc \notin {"idle", "start"} =>
        /\ epoch <= config_epochs
        /\ (tpc = "done" /\ ~early_stopped) => epoch = config_epochs
        /\ saved = ImprovedEpochs
        /\ early_stopped => (tpc = "done" /\ dev_data /\ patience # {})
        /\ (~dev_data \/ patience = {}) => (calls = <<>> /\ saved = <<>>)
        /\ (dev_data /\ patience # {}) =>
              /\ Len(calls) = epoch
              /\ \A i \in 1..Len(calls) :
                    /\ calls[i].epoch = i - 1
                    /\ (\E p \in patience : calls[i].epoch - calls[i].best_epoch > p)
                          <=> (early_stopped /\ i = Len(calls))
              /\ tpc = "done" =>
                    /\ saved # <<>>
                    /\ saved[Len(saved)] = best_epoch

====
